---- MODULE Spec2Model ----
(***************************************************************************)
(* Model of plugins/vpc-shared-eni/network/bridge_windows.go: the          *)
(* BridgeBuilder that creates, finds, attaches, detaches and deletes HNS   *)
(* networks and HNS endpoints on Windows.                                  *)
(*                                                                         *)
(* The Host Networking Service (HNS) is the state shared by all plugin     *)
(* invocations: the collection of networks, the collection of endpoints,   *)
(* the legacy (V1) container attachments and the HCN namespace members.    *)
(* A plugin invocation is a short call sequence against HNS.  Every action *)
(* of the model is one HNS call together with the builder code that runs   *)
(* between that call and the next one, so that invocations interleave at   *)
(* the granularity of HNS calls.                                           *)
(***************************************************************************)
EXTENDS Integers, Sequences, FiniteSets, TLC

VARIABLES
    hnsNetworks,    \* HNS network collection: set of [Id, Name]
    hnsEndpoints,   \* HNS endpoint collection: set of [Id, Name, MacAddress]
    attached,       \* V1 attachments: set of <<containerID, endpointId>>
    nsMembers,      \* HCN namespace members: set of <<namespaceId, endpointId>>
    nextId,         \* next identifier HNS hands out
    pc,             \* per invocation slot: position in the builder code
    req,            \* per invocation slot: the operation and its arguments
    loc,            \* per invocation slot: the locals of the running operation
    calls,          \* per invocation slot: the HNS calls issued so far
    ret,            \* per invocation slot: the returned error and ep.MACAddress
    prev            \* per invocation slot: the invocation that the running
                    \* one repeats (its arguments, what it returned and the
                    \* HNS calls it issued, in order), if it repeats one

vars == <<hnsNetworks, hnsEndpoints, attached, nsMembers, nextId,
          pc, req, loc, calls, ret, prev>>

hns == <<hnsNetworks, hnsEndpoints, attached, nsMembers, nextId>>

-----------------------------------------------------------------------------
(* Bounds of the model.                                                    *)

\* HNS hands out at most MaxIds object identifiers; further creates fail.
MaxIds == 2

\* Invocation slots: slot 1 alone gives the sequential runs, both slots the
\* concurrent ones.
Procs == {1, 2}

-----------------------------------------------------------------------------
(* Constants of the program.                                               *)

hnsNetworkNameFormat(name, id) == name \o "br" \o id

hnsEndpointNameFormat(id) == "cid-" \o id

infraContainerNS == 0
appContainerNS == 1
hcnNamespace == 2

\* hcsshim.HNSVersion1803
hnsMinVersion == [Major |-> 7, Minor |-> 2]

containerPrefix == "container:"

nil == "nil"

-----------------------------------------------------------------------------
(* String helpers of the Go standard library, as the code uses them.       *)

HasPrefix(s, prefix) ==
    /\ Len(s) >= Len(prefix)
    /\ SubSeq(s, 1, Len(prefix)) = prefix

TrimPrefix(s, prefix) ==
    IF HasPrefix(s, prefix) THEN SubSeq(s, Len(prefix) + 1, Len(s)) ELSE s

RECURSIVE RemoveAll(_, _)
\* strings.Replace(s, c, "", -1) for a one-character c.
RemoveAll(s, c) ==
    IF Len(s) = 0 THEN ""
    ELSE LET h == SubSeq(s, 1, 1)
             t == RemoveAll(SubSeq(s, 2, Len(s)), c)
         IN IF h = c THEN t ELSE h \o t

HexDigits == "0123456789abcdef"

HexUpper == "0123456789ABCDEF"

\* The value of one hexadecimal digit, -1 when c is none.
HexVal(c) ==
    LET lo == {i \in 1..16 : SubSeq(HexDigits, i, i) = c}
        up == {i \in 1..16 : SubSeq(HexUpper, i, i) = c}
    IN IF lo # {} THEN (CHOOSE i \in lo : TRUE) - 1
       ELSE IF up # {} THEN (CHOOSE i \in up : TRUE) - 1
       ELSE -1

\* net.ParseMAC for the six-octet forms xx-xx-xx-xx-xx-xx and
\* xx:xx:xx:xx:xx:xx: the octets, or the nil address <<>> for anything else.
ParseMAC(s) ==
    IF Len(s) # 17 THEN <<>>
    ELSE LET sep == SubSeq(s, 3, 3)
             octet(k) == 16 * HexVal(SubSeq(s, 3*k - 2, 3*k - 2))
                            + HexVal(SubSeq(s, 3*k - 1, 3*k - 1))
             wellFormed ==
                 /\ sep \in {":", "-"}
                 /\ \A k \in 1..5 : SubSeq(s, 3*k, 3*k) = sep
                 /\ \A k \in 1..6 :
                        /\ HexVal(SubSeq(s, 3*k - 2, 3*k - 2)) >= 0
                        /\ HexVal(SubSeq(s, 3*k - 1, 3*k - 1)) >= 0
         IN IF wellFormed THEN [k \in 1..6 |-> octet(k)] ELSE <<>>

\* A net.IP is a byte slice: its length and, for 16 bytes, whether it is an
\* IPv4-mapped address.  The nil slice has length 0.
nilIP == [len |-> 0, v4mapped |-> FALSE]

\* net.IP.To4: the 4-byte form of an IPv4 address (also of an IPv4-mapped
\* IPv6 address), nil for any other address.
To4(ip) ==
    IF ip.len = 4 THEN ip
    ELSE IF ip.len = 16 /\ ip.v4mapped THEN [len |-> 4, v4mapped |-> FALSE]
    ELSE nilIP

RECURSIVE Itoa(_)
\* The decimal digits of a natural number.
Itoa(n) ==
    IF n < 10 THEN SubSeq("0123456789", n + 1, n + 1)
    ELSE Itoa(n \div 10) \o SubSeq("0123456789", (n % 10) + 1, (n % 10) + 1)

\* net.IP.String of a 4-byte address, given as its octets.
IPString(ip) ==
    Itoa(ip[1]) \o "." \o Itoa(ip[2]) \o "." \o Itoa(ip[3]) \o "." \o Itoa(ip[4])

\* net.IPNet.String: the address, a slash and the length of the mask.
IPNetString(n) == IPString(n.IP) \o "/" \o Itoa(n.Ones)

\* vpc.GetSubnetPrefix: the network of an address, i.e. the address with the
\* bits beyond the mask cleared.
GetSubnetPrefix(n) ==
    LET bits(k) == IF n.Ones >= 8 * k THEN 8
                   ELSE IF n.Ones <= 8 * (k - 1) THEN 0
                   ELSE n.Ones - 8 * (k - 1)
        masked(k) == n.IP[k] - (n.IP[k] % (2 ^ (8 - bits(k))))
    IN [IP |-> [k \in 1..4 |-> masked(k)], Ones |-> n.Ones]

-----------------------------------------------------------------------------
(* Arguments of the operations.                                            *)

IPv4 == [len |-> 4, v4mapped |-> FALSE]
IPv6 == [len |-> 16, v4mapped |-> FALSE]
IPv4in6 == [len |-> 16, v4mapped |-> TRUE]

\* ep.IPAddresses: the address lists an invocation may carry.
AddressLists ==
    {<<>>, <<IPv4>>, <<IPv6>>, <<IPv4in6>>, <<IPv4, IPv4>>, <<IPv6, IPv4>>}

ContainerIDs == {"c1", "c2"}

NetNSNames == {"", "none", "container:c1", "ns1"}

\* The Endpoint argument; MACAddress is the output field, nil on entry.
EndpointArgs ==
    [ContainerID : ContainerIDs, NetNSName : NetNSNames,
     IPAddresses : AddressLists]

\* nw.ENIIPAddresses[0]: the address of the shared ENI and its mask length.
ENIAddress == [IP |-> <<10, 0, 0, 5>>, Ones |-> 24]

\* nw.VPCCIDRs is a slice: nil when no list is configured, else its elements.
NoCIDRs == [isNil |-> TRUE, elems |-> <<>>]

CIDRs(elems) == [isNil |-> FALSE, elems |-> elems]

\* The Network argument: its name, the bridge namespace path, the MAC
\* address of the shared ENI as net.HardwareAddr.String() prints it, the
\* first ENI address, the VPC CIDRs and the service CIDR.
NetworkArgs ==
    [Name : {"vpc"}, BridgeNetNSPath : {"", "netns1"},
     SharedENIMAC : {"02:00:00:00:00:0a"}, ENIIPAddress : {ENIAddress},
     VPCCIDRs : {NoCIDRs}, ServiceCIDR : {""}]

HostNetwork ==
    [Name |-> "vpc", BridgeNetNSPath |-> "", SharedENIMAC |-> "02:00:00:00:00:0a",
     ENIIPAddress |-> ENIAddress, VPCCIDRs |-> NoCIDRs, ServiceCIDR |-> ""]

\* The VPC and service configurations of a network.
VPCCIDRLists ==
    {NoCIDRs, CIDRs(<<>>),
     CIDRs(<<[IP |-> <<10, 0, 0, 0>>, Ones |-> 16]>>),
     CIDRs(<<[IP |-> <<10, 0, 0, 0>>, Ones |-> 16],
             [IP |-> <<10, 1, 0, 0>>, Ones |-> 16]>>),
     CIDRs(<<[IP |-> <<10, 1, 0, 0>>, Ones |-> 16],
             [IP |-> <<10, 0, 0, 0>>, Ones |-> 16]>>)}

ServiceCIDRs == {"", "172.20.0.0/16"}

ENIAddresses == {ENIAddress, [IP |-> <<192, 168, 77, 130>>, Ones |-> 26]}

\* Networks in the host namespace, in every VPC and service configuration.
ConfiguredNetworks ==
    [Name : {"vpc"}, BridgeNetNSPath : {""},
     SharedENIMAC : {"02:00:00:00:00:0a"}, ENIIPAddress : ENIAddresses,
     VPCCIDRs : VPCCIDRLists, ServiceCIDR : ServiceCIDRs]

\* The namespace references a container runtime may hand over.
AnyNetNSNames ==
    {"", "none", "None", "container:", "container:c1", "container:c2",
     "container", "xcontainer:c1", "container:container:c1", "ns1"}

\* FindOrCreateEndpoint calls over every namespace reference and network
\* configuration, each with one IPv4 address.
ConfiguredRequests ==
    [op : {"FindOrCreateEndpoint"}, nw : ConfiguredNetworks,
     ep : [ContainerID : ContainerIDs, NetNSName : AnyNetNSNames,
           IPAddresses : {<<IPv4>>}]]

NoEndpointArg == [ContainerID |-> "", NetNSName |-> "", IPAddresses |-> <<>>]

Ops == {"FindOrCreateNetwork", "DeleteNetwork", "FindOrCreateEndpoint",
        "DeleteEndpoint"}

Requests ==
    [op : {"FindOrCreateNetwork", "DeleteNetwork"}, nw : NetworkArgs,
     ep : {NoEndpointArg}]
    \cup
    [op : {"FindOrCreateEndpoint", "DeleteEndpoint"}, nw : {HostNetwork},
     ep : EndpointArgs]

NoRequest == [op |-> "", nw |-> HostNetwork, ep |-> NoEndpointArg]

\* The endpoint operations that orchestrators issue for one and the same
\* pod at overlapping times: its Infra container, a container in its HCN
\* namespace, each with one IPv4 address.
OverlappingRequests ==
    [op : {"FindOrCreateEndpoint", "DeleteEndpoint"}, nw : {HostNetwork},
     ep : [ContainerID : {"c1"}, NetNSName : {"", "ns1"},
           IPAddresses : {<<IPv4>>}]]

\* The versions HNS may report: below the minimum in the minor, below it in
\* the major with a higher minor, the minimum itself, above it in the major
\* with a lower minor.
Versions ==
    {[Major |-> 7, Minor |-> 1], [Major |-> 6, Minor |-> 3],
     [Major |-> 7, Minor |-> 2], [Major |-> 8, Minor |-> 0]}

-----------------------------------------------------------------------------
(* Pure functions of the builder.                                          *)

\* getNamespaceIdentifier: the namespace type and identifier of ep.
\* As getNamespaceIdentifier, but the reference of an App container is not
\* stripped of its prefix.
getNamespaceIdentifierKeepingPrefix(ep) ==
    IF ep.NetNSName = "none" \/ ep.NetNSName = ""
    THEN <<infraContainerNS, ep.ContainerID>>
    ELSE IF HasPrefix(ep.NetNSName, containerPrefix)
    THEN <<appContainerNS, ep.NetNSName>>
    ELSE <<hcnNamespace, ep.NetNSName>>

getNamespaceIdentifier(ep) ==
    IF ep.NetNSName = "none" \/ ep.NetNSName = ""
    THEN <<infraContainerNS, ep.ContainerID>>
    ELSE IF HasPrefix(ep.NetNSName, containerPrefix)
    THEN <<appContainerNS, TrimPrefix(ep.NetNSName, containerPrefix)>>
    ELSE <<hcnNamespace, ep.NetNSName>>

\* generateHNSEndpointName: the deterministic name of ep's HNS endpoint.
generateHNSEndpointName(ep, id) ==
    hnsEndpointNameFormat(IF id = "" THEN ep.ContainerID ELSE id)

\* generateHNSNetworkName: the deterministic name of nw's HNS network.
generateHNSNetworkName(nw) ==
    hnsNetworkNameFormat(nw.Name, RemoveAll(nw.SharedENIMAC, ":"))

\* As supported, but each component is compared on its own.
supportedComponentwise(hnsVersion) ==
    /\ hnsVersion.Major >= hnsMinVersion.Major
    /\ hnsVersion.Minor >= hnsMinVersion.Minor

\* The comparison of checkHNSVersion.
supported(hnsVersion) ==
    \/ hnsVersion.Major > hnsMinVersion.Major
    \/ /\ hnsVersion.Major = hnsMinVersion.Major
       /\ hnsVersion.Minor >= hnsMinVersion.Minor

\* As checkIPAddresses, but without the count of the addresses.
checkFirstAddressOnly(ep) ==
    IF Len(ep.IPAddresses) = 0 THEN "panic: index out of range"
    ELSE IF To4(ep.IPAddresses[1]) = nilIP THEN "ErrSingleIPv4Only"
    ELSE nil

\* As snatExceptions, but the subnet of the ENI is always an exception.
snatExceptionsWithSubnet(nw) ==
    <<IPNetString(GetSubnetPrefix(nw.ENIIPAddress))>>
    \o [i \in 1..Len(nw.VPCCIDRs.elems) |-> IPNetString(nw.VPCCIDRs.elems[i])]
    \o (IF nw.ServiceCIDR # "" THEN <<nw.ServiceCIDR>> ELSE <<>>)

\* Lines 190-204: the destinations whose traffic is not source-translated.
snatExceptions(nw) ==
    (IF nw.VPCCIDRs.isNil
     THEN <<IPNetString(GetSubnetPrefix(nw.ENIIPAddress))>>
     ELSE [i \in 1..Len(nw.VPCCIDRs.elems) |-> IPNetString(nw.VPCCIDRs.elems[i])])
    \o (IF nw.ServiceCIDR # "" THEN <<nw.ServiceCIDR>> ELSE <<>>)

\* hcsshim.OutboundNatPolicy
OutboundNatPolicy(exceptions) ==
    [Type |-> "OutBoundNAT", Exceptions |-> exceptions,
     DestinationPrefix |-> "", NeedEncap |-> FALSE]

\* hnsRoutePolicy
hnsRoutePolicy(destinationPrefix, needEncap) ==
    [Type |-> "ROUTE", Exceptions |-> <<>>,
     DestinationPrefix |-> destinationPrefix, NeedEncap |-> needEncap]

\* Lines 206-247: the policies of a new endpoint, in the order in which
\* addEndpointPolicy appends them.
endpointPolicies(nw) ==
    <<OutboundNatPolicy(snatExceptions(nw))>>
    \o (IF nw.ServiceCIDR # ""
        THEN <<hnsRoutePolicy(nw.ServiceCIDR, TRUE),
               hnsRoutePolicy(IPString(nw.ENIIPAddress.IP) \o "/32", TRUE)>>
        ELSE <<>>)

\* The address check that opens FindOrCreateEndpoint: nil when ep passes,
\* the validation error when it does not, and the runtime panic of indexing
\* an empty list (|| evaluates its right side when the left is false).
checkIPAddresses(ep) ==
    IF Len(ep.IPAddresses) > 1 THEN "ErrSingleIPv4Only"
    ELSE IF Len(ep.IPAddresses) = 0 THEN "panic: index out of range"
    ELSE IF To4(ep.IPAddresses[1]) = nilIP THEN "ErrSingleIPv4Only"
    ELSE nil

-----------------------------------------------------------------------------
(* The Host Networking Service.  Each operator is one HNS call: its        *)
(* outcome err is chosen by the caller among the outcomes HNS can give in  *)
(* the current state, and the call changes the HNS state only when it      *)
(* succeeds.                                                               *)

NoEndpoint == [Id |-> 0, Name |-> "", MacAddress |-> "", Policies |-> <<>>]

NoNetwork == [Id |-> 0, Name |-> ""]

\* The MAC address HNS assigns to the endpoint with identifier id, in the
\* form HNS reports it.
HNSMacAddress(id) == "00-15-5D-00-00-0" \o SubSeq(HexUpper, id + 1, id + 1)

\* The version no HNS call reported.
NoVersion == [Major |-> 0, Minor |-> 0]

\* hcsshim.GetHNSGlobals: the version of the HNS the host runs.
GetHNSGlobals(hnsVersion, err) ==
    /\ \/ /\ err = nil
          /\ hnsVersion \in Versions
       \/ /\ err = "ErrHNSGlobals"
          /\ hnsVersion = NoVersion
    /\ UNCHANGED hns

\* hcsshim.GetHNSNetworkByName: a network of that name, or not found.
GetHNSNetworkByName(name, hnsNetwork, err) ==
    /\ \/ /\ err = nil
          /\ hnsNetwork \in {n \in hnsNetworks : n.Name = name}
       \/ /\ err = "ErrNetworkNotFound"
          /\ hnsNetwork = NoNetwork
          /\ ~\E n \in hnsNetworks : n.Name = name
    /\ UNCHANGED hns

\* hcsshim.HNSNetworkRequest("POST", "", request)
CreateHNSNetwork(name, hnsResponse, err) ==
    /\ \/ /\ err = nil
          /\ nextId <= MaxIds
          /\ hnsResponse = [Id |-> nextId, Name |-> name]
          /\ hnsNetworks' = hnsNetworks \cup {hnsResponse}
          /\ nextId' = nextId + 1
       \/ /\ err = "ErrHNSRequest"
          /\ hnsResponse = NoNetwork
          /\ UNCHANGED <<hnsNetworks, nextId>>
    /\ UNCHANGED <<hnsEndpoints, attached, nsMembers>>

\* hcsshim.HNSNetworkRequest("DELETE", id, "")
DeleteHNSNetwork(id, err) ==
    /\ \/ /\ err = nil
          /\ \E n \in hnsNetworks : n.Id = id
          /\ hnsNetworks' = {n \in hnsNetworks : n.Id # id}
       \/ /\ err = "ErrHNSRequest"
          /\ UNCHANGED hnsNetworks
    /\ UNCHANGED <<hnsEndpoints, attached, nsMembers, nextId>>

\* hcsshim.GetHNSEndpointByName: an endpoint of that name, or not found.
GetHNSEndpointByName(name, hnsEndpoint, err) ==
    /\ \/ /\ err = nil
          /\ hnsEndpoint \in {e \in hnsEndpoints : e.Name = name}
       \/ /\ err = "ErrEndpointNotFound"
          /\ hnsEndpoint = NoEndpoint
          /\ ~\E e \in hnsEndpoints : e.Name = name
    /\ UNCHANGED hns

\* hcsshim.HNSEndpointRequest("POST", "", request): HNS gives the endpoint
\* of the request an identifier and a MAC address.
CreateHNSEndpoint(hnsRequest, hnsResponse, err) ==
    /\ \/ /\ err = nil
          /\ nextId <= MaxIds
          /\ hnsResponse = [hnsRequest EXCEPT !.Id = nextId,
                                              !.MacAddress = HNSMacAddress(nextId)]
          /\ hnsEndpoints' = hnsEndpoints \cup {hnsResponse}
          /\ nextId' = nextId + 1
       \/ /\ err = "ErrHNSRequest"
          /\ hnsResponse = NoEndpoint
          /\ UNCHANGED <<hnsEndpoints, nextId>>
    /\ UNCHANGED <<hnsNetworks, attached, nsMembers>>

\* hcsshim.HNSEndpointRequest("DELETE", id, ""): a deleted endpoint leaves
\* every container and namespace it was attached to.
DeleteHNSEndpoint(id, err) ==
    /\ \/ /\ err = nil
          /\ \E e \in hnsEndpoints : e.Id = id
          /\ hnsEndpoints' = {e \in hnsEndpoints : e.Id # id}
          /\ attached' = {a \in attached : a[2] # id}
          /\ nsMembers' = {m \in nsMembers : m[2] # id}
       \/ /\ err = "ErrHNSRequest"
          /\ UNCHANGED <<hnsEndpoints, attached, nsMembers>>
    /\ UNCHANGED <<hnsNetworks, nextId>>

\* hcsshim.HotAttachEndpoint
HotAttachEndpoint(containerID, endpointID, err) ==
    /\ \/ /\ err = nil
          /\ \E e \in hnsEndpoints : e.Id = endpointID
          /\ attached' = attached \cup {<<containerID, endpointID>>}
       \/ /\ err = "ErrHotAttach"
          /\ UNCHANGED attached
    /\ UNCHANGED <<hnsNetworks, hnsEndpoints, nsMembers, nextId>>

\* hcsshim.HotDetachEndpoint
HotDetachEndpoint(containerID, endpointID, err) ==
    /\ \/ /\ err = nil
          /\ \E e \in hnsEndpoints : e.Id = endpointID
          /\ attached' = attached \ {<<containerID, endpointID>>}
       \/ /\ err \in {"ErrComputeSystemDoesNotExist", "ErrHotDetach"}
          /\ UNCHANGED attached
    /\ UNCHANGED <<hnsNetworks, hnsEndpoints, nsMembers, nextId>>

\* hcn.GetNamespaceEndpointIds
GetNamespaceEndpointIds(netNSName, nsEndpoints, err) ==
    /\ \/ /\ err = nil
          /\ nsEndpoints = {m[2] : m \in {x \in nsMembers : x[1] = netNSName}}
       \/ /\ err = "ErrGetNamespaceEndpointIds"
          /\ nsEndpoints = {}
    /\ UNCHANGED hns

\* hcn.AddNamespaceEndpoint
AddNamespaceEndpoint(netNSName, endpointID, err) ==
    /\ \/ /\ err = nil
          /\ \E e \in hnsEndpoints : e.Id = endpointID
          /\ nsMembers' = nsMembers \cup {<<netNSName, endpointID>>}
       \/ /\ err = "ErrAddNamespaceEndpoint"
          /\ UNCHANGED nsMembers
    /\ UNCHANGED <<hnsNetworks, hnsEndpoints, attached, nextId>>

\* hcn.RemoveNamespaceEndpoint
RemoveNamespaceEndpoint(netNSName, endpointID, err) ==
    /\ \/ /\ err = nil
          /\ \E e \in hnsEndpoints : e.Id = endpointID
          /\ nsMembers' = nsMembers \ {<<netNSName, endpointID>>}
       \/ /\ err = "ErrRemoveNamespaceEndpoint"
          /\ UNCHANGED nsMembers
    /\ UNCHANGED <<hnsNetworks, hnsEndpoints, attached, nextId>>

\* The errors an HNS call can return.
HNSErrors ==
    {nil, "ErrHNSGlobals", "ErrNetworkNotFound", "ErrEndpointNotFound",
     "ErrHNSRequest", "ErrHotAttach", "ErrHotDetach",
     "ErrComputeSystemDoesNotExist", "ErrGetNamespaceEndpointIds",
     "ErrAddNamespaceEndpoint", "ErrRemoveNamespaceEndpoint"}

-----------------------------------------------------------------------------
(* The state of an invocation.                                             *)

NoLocals ==
    [nsType |-> infraContainerNS, namespaceIdentifier |-> "",
     endpointName |-> "", hnsEndpoint |-> NoEndpoint,
     hnsNetwork |-> NoNetwork, err |-> nil]

\* What an invocation returned: the error and the ep.MACAddress it left.
NoReturn == [err |-> nil, MACAddress |-> <<>>]

NoInvocation == [req |-> NoRequest, ret |-> NoReturn, apis |-> <<>>]

\* The invocation appends the HNS call it issues to its call log: the call,
\* its name and identifier arguments, the error it returned and, for
\* GetHNSGlobals, the version it reported.
LogCall(p, api, name, id, err, version) ==
    calls' = [calls EXCEPT ![p] =
                  Append(@, [api |-> api, name |-> name, id |-> id, err |-> err,
                             version |-> version])]

Log(p, api, name, id, err) == LogCall(p, api, name, id, err, NoVersion)

\* The invocation returns err to its caller, leaving mac in ep.MACAddress.
Return(p, err, mac) ==
    /\ pc' = [pc EXCEPT ![p] = "done"]
    /\ ret' = [ret EXCEPT ![p] = [err |-> err, MACAddress |-> mac]]

\* The invocation goes on to the HNS call at label.
Goto(p, label) ==
    /\ pc' = [pc EXCEPT ![p] = label]
    /\ ret' = [ret EXCEPT ![p] = NoReturn]

Init ==
    /\ hnsNetworks = {}
    /\ hnsEndpoints = {}
    /\ attached = {}
    /\ nsMembers = {}
    /\ nextId = 1
    /\ pc = [p \in Procs |-> "idle"]
    /\ req = [p \in Procs |-> NoRequest]
    /\ loc = [p \in Procs |-> NoLocals]
    /\ calls = [p \in Procs |-> <<>>]
    /\ ret = [p \in Procs |-> NoReturn]
    /\ prev = [p \in Procs |-> NoInvocation]

-----------------------------------------------------------------------------
(* Entry of an operation: the code that runs before its first HNS call.    *)

\* The locals FindOrCreateEndpoint and DeleteEndpoint compute from ep.
endpointLocals(ep) ==
    LET ns == getNamespaceIdentifier(ep)
    IN [NoLocals EXCEPT !.nsType = ns[1],
                        !.namespaceIdentifier = ns[2],
                        !.endpointName = generateHNSEndpointName(ep, ns[2])]

\* Operation r.op is entered in slot p with the arguments r.nw and r.ep.
Enter(p, r) ==
    /\ req' = [req EXCEPT ![p] = r]
    /\ calls' = [calls EXCEPT ![p] = <<>>]
    /\ UNCHANGED hns
    /\ CASE r.op = "FindOrCreateNetwork" ->
              /\ loc' = [loc EXCEPT ![p] = NoLocals]
              /\ Goto(p, "checkHNSVersion:429")
         [] r.op = "DeleteNetwork" ->
              /\ loc' = [loc EXCEPT ![p] = NoLocals]
              /\ Goto(p, "DeleteNetwork:126")
         [] r.op = "FindOrCreateEndpoint" ->
              IF checkIPAddresses(r.ep) # nil
              THEN /\ loc' = [loc EXCEPT ![p] = NoLocals]
                   /\ Return(p, checkIPAddresses(r.ep), <<>>)
              ELSE /\ loc' = [loc EXCEPT ![p] = endpointLocals(r.ep)]
                   /\ Goto(p, "FindOrCreateEndpoint:153")
         [] r.op = "DeleteEndpoint" ->
              /\ loc' = [loc EXCEPT ![p] = endpointLocals(r.ep)]
              /\ Goto(p, "DeleteEndpoint:297")

\* The orchestrator invokes an operation in the free slot p.
Invoke(p, r) ==
    /\ pc[p] = "idle"
    /\ Enter(p, r)
    /\ UNCHANGED prev

\* The invocation in slot p has returned, and the orchestrator invokes the
\* same operation again with the same arguments (a retry, or a duplicate
\* call).
Reinvoke(p) ==
    /\ pc[p] = "done"
    /\ prev' = [prev EXCEPT ![p] =
                   [req |-> req[p], ret |-> ret[p],
                    apis |-> [i \in 1..Len(calls[p]) |-> calls[p][i].api]]]
    /\ Enter(p, req[p])

\* The invocation in slot p has returned; the slot becomes free.
Complete(p) ==
    /\ pc[p] = "done"
    /\ prev' = [prev EXCEPT ![p] = NoInvocation]
    /\ pc' = [pc EXCEPT ![p] = "idle"]
    /\ req' = [req EXCEPT ![p] = NoRequest]
    /\ loc' = [loc EXCEPT ![p] = NoLocals]
    /\ calls' = [calls EXCEPT ![p] = <<>>]
    /\ ret' = [ret EXCEPT ![p] = NoReturn]
    /\ UNCHANGED hns

-----------------------------------------------------------------------------
(* FindOrCreateNetwork and DeleteNetwork.                                  *)

\* As CheckHNSVersion, but a bridge in any namespace is accepted.
CheckHNSVersionWithoutBridgeCheck(p) ==
    /\ pc[p] = "checkHNSVersion:429"
    /\ \E err \in HNSErrors, hnsVersion \in Versions \cup {NoVersion} :
          /\ GetHNSGlobals(hnsVersion, err)
          /\ LogCall(p, "GetHNSGlobals", "", 0, err, hnsVersion)
          /\ IF err # nil THEN Return(p, err, <<>>)
             ELSE IF ~supported(hnsVersion)
             THEN Return(p, "ErrHNSVersion", <<>>)
             ELSE Goto(p, "FindOrCreateNetwork:83")
    /\ UNCHANGED <<req, loc, prev>>

\* checkHNSVersion, and the bridge namespace check that follows it.
CheckHNSVersion(p) ==
    /\ pc[p] = "checkHNSVersion:429"
    /\ \E err \in HNSErrors, hnsVersion \in Versions \cup {NoVersion} :
          /\ GetHNSGlobals(hnsVersion, err)
          /\ LogCall(p, "GetHNSGlobals", "", 0, err, hnsVersion)
          /\ IF err # nil THEN Return(p, err, <<>>)
             ELSE IF ~supported(hnsVersion)
             THEN Return(p, "ErrHNSVersion", <<>>)
             ELSE IF req[p].nw.BridgeNetNSPath # ""
             THEN Return(p, "ErrBridgeNetNS", <<>>)
             ELSE Goto(p, "FindOrCreateNetwork:83")
    /\ UNCHANGED <<req, loc, prev>>

\* As FindNetwork, but the create request follows a network found, too.
FindNetworkIgnoringExisting(p) ==
    /\ pc[p] = "FindOrCreateNetwork:83"
    /\ LET networkName == generateHNSNetworkName(req[p].nw)
       IN \E err \in HNSErrors, hnsNetwork \in hnsNetworks \cup {NoNetwork} :
             /\ GetHNSNetworkByName(networkName, hnsNetwork, err)
             /\ Log(p, "GetHNSNetworkByName", networkName, 0, err)
             /\ Goto(p, "FindOrCreateNetwork:111")
    /\ UNCHANGED <<req, loc, prev>>

\* FindOrCreateNetwork: the lookup by name.
FindNetwork(p) ==
    /\ pc[p] = "FindOrCreateNetwork:83"
    /\ LET networkName == generateHNSNetworkName(req[p].nw)
       IN \E err \in HNSErrors, hnsNetwork \in hnsNetworks \cup {NoNetwork} :
             /\ GetHNSNetworkByName(networkName, hnsNetwork, err)
             /\ Log(p, "GetHNSNetworkByName", networkName, 0, err)
             /\ IF err = nil THEN Return(p, nil, <<>>)
                ELSE Goto(p, "FindOrCreateNetwork:111")
    /\ UNCHANGED <<req, loc, prev>>

\* FindOrCreateNetwork: the create request.
CreateNetwork(p) ==
    /\ pc[p] = "FindOrCreateNetwork:111"
    /\ LET networkName == generateHNSNetworkName(req[p].nw)
       IN \E err \in HNSErrors :
             /\ CreateHNSNetwork(networkName,
                    IF err = nil THEN [Id |-> nextId, Name |-> networkName]
                    ELSE NoNetwork, err)
             /\ Log(p, "HNSNetworkRequest.POST", networkName, 0, err)
             /\ Return(p, err, <<>>)
    /\ UNCHANGED <<req, loc, prev>>

\* DeleteNetwork: the lookup by name.
ResolveNetwork(p) ==
    /\ pc[p] = "DeleteNetwork:126"
    /\ LET networkName == generateHNSNetworkName(req[p].nw)
       IN \E err \in HNSErrors, hnsNetwork \in hnsNetworks \cup {NoNetwork} :
             /\ GetHNSNetworkByName(networkName, hnsNetwork, err)
             /\ Log(p, "GetHNSNetworkByName", networkName, 0, err)
             /\ loc' = [loc EXCEPT ![p].hnsNetwork = hnsNetwork]
             /\ IF err # nil THEN Return(p, err, <<>>)
                ELSE Goto(p, "DeleteNetwork:133")
    /\ UNCHANGED <<req, prev>>

\* DeleteNetwork: the delete request.
DeleteNetwork(p) ==
    /\ pc[p] = "DeleteNetwork:133"
    /\ \E err \in HNSErrors :
          /\ DeleteHNSNetwork(loc[p].hnsNetwork.Id, err)
          /\ Log(p, "HNSNetworkRequest.DELETE", "", loc[p].hnsNetwork.Id, err)
          /\ Return(p, err, <<>>)
    /\ UNCHANGED <<req, loc, prev>>

-----------------------------------------------------------------------------
(* FindOrCreateEndpoint.                                                   *)

\* As isDuplicateCreate, but for the Infra container alone.
isDuplicateCreateInfraOnly(nsType) == nsType = infraContainerNS

\* Line 156: an endpoint found for an Infra container or an HCN namespace is
\* a benign duplicate create; for any other type it is attached (V1).
isDuplicateCreate(nsType) ==
    nsType = infraContainerNS \/ nsType = hcnNamespace

\* As createsEndpoint, but for every namespace type.
createsEndpointAlways(nsType) == TRUE

\* Line 170: with no endpoint found, only an Infra container or an HCN
\* namespace gets one created.
createsEndpoint(nsType) ==
    ~(nsType # infraContainerNS /\ nsType # hcnNamespace)

\* As attachFailure, but a failed cleanup replaces the attach error.
attachFailureCleanupErrorFirst(err, delErr) ==
    IF delErr # nil THEN delErr ELSE err

\* Line 281: what FindOrCreateEndpoint returns after the cleanup of a failed
\* attach, given the attach error and the error of the cleanup's delete.
attachFailure(err, delErr) == err

\* The lookup by name, and both branches that return without a create.
FindEndpoint(p) ==
    /\ pc[p] = "FindOrCreateEndpoint:153"
    /\ \E err \in HNSErrors, hnsEndpoint \in hnsEndpoints \cup {NoEndpoint} :
          /\ GetHNSEndpointByName(loc[p].endpointName, hnsEndpoint, err)
          /\ Log(p, "GetHNSEndpointByName", loc[p].endpointName, 0, err)
          /\ loc' = [loc EXCEPT ![p].hnsEndpoint = hnsEndpoint]
          /\ IF err = nil
             THEN IF isDuplicateCreate(loc[p].nsType)
                  THEN Return(p, nil, ParseMAC(hnsEndpoint.MacAddress))
                  ELSE Goto(p, "FindOrCreateEndpoint:164")
             ELSE IF createsEndpoint(loc[p].nsType)
                  THEN Goto(p, "FindOrCreateEndpoint:258")
                  ELSE Return(p, "ErrFindEndpoint", <<>>)
    /\ UNCHANGED <<req, prev>>

\* As AttachFoundEndpoint, but the endpoint is attached to the container the
\* namespace belongs to, not to the calling one.
AttachFoundEndpointToNamespaceOwner(p) ==
    /\ pc[p] = "FindOrCreateEndpoint:164"
    /\ \E err \in HNSErrors :
          /\ HotAttachEndpoint(loc[p].namespaceIdentifier,
                               loc[p].hnsEndpoint.Id, err)
          /\ Log(p, "HotAttachEndpoint", loc[p].namespaceIdentifier,
                 loc[p].hnsEndpoint.Id, err)
          /\ Return(p, err, ParseMAC(loc[p].hnsEndpoint.MacAddress))
    /\ UNCHANGED <<req, loc, prev>>

\* Line 164: attachEndpointV1 of the endpoint found, to the calling container.
AttachFoundEndpoint(p) ==
    /\ pc[p] = "FindOrCreateEndpoint:164"
    /\ \E err \in HNSErrors :
          /\ HotAttachEndpoint(req[p].ep.ContainerID, loc[p].hnsEndpoint.Id, err)
          /\ Log(p, "HotAttachEndpoint", req[p].ep.ContainerID,
                 loc[p].hnsEndpoint.Id, err)
          /\ Return(p, err, ParseMAC(loc[p].hnsEndpoint.MacAddress))
    /\ UNCHANGED <<req, loc, prev>>

\* Lines 177-272: the endpoint request is built and submitted, and the
\* attach that follows is chosen.
CreateEndpoint(p) ==
    /\ pc[p] = "FindOrCreateEndpoint:258"
    /\ \E err \in HNSErrors :
          LET hnsEndpoint ==
                  [NoEndpoint EXCEPT !.Name = loc[p].endpointName,
                                     !.Policies = endpointPolicies(req[p].nw)]
              hnsResponse ==
                  IF err = nil
                  THEN [hnsEndpoint EXCEPT !.Id = nextId,
                                           !.MacAddress = HNSMacAddress(nextId)]
                  ELSE NoEndpoint
          IN /\ CreateHNSEndpoint(hnsEndpoint, hnsResponse, err)
             /\ Log(p, "HNSEndpointRequest.POST", loc[p].endpointName, 0, err)
             /\ loc' = [loc EXCEPT ![p].hnsEndpoint = hnsResponse]
             /\ IF err # nil THEN Return(p, err, <<>>)
                ELSE IF loc[p].nsType = infraContainerNS
                THEN Goto(p, "attachEndpointV1:338")
                ELSE IF loc[p].nsType = hcnNamespace
                THEN Goto(p, "attachEndpointV2:353")
                ELSE Return(p, nil, ParseMAC(hnsResponse.MacAddress))
    /\ UNCHANGED <<req, prev>>

\* As afterAttach, but a failed attach returns at once, with no cleanup.
afterAttachWithoutCleanup(p, err) ==
    /\ UNCHANGED loc
    /\ Return(p, err, IF err = nil THEN ParseMAC(loc[p].hnsEndpoint.MacAddress)
                      ELSE <<>>)

\* The code after the attach of a created endpoint: cleanup when it failed,
\* return of the MAC address when it did not.
afterAttach(p, err) ==
    IF err # nil
    THEN /\ loc' = [loc EXCEPT ![p].err = err]
         /\ Goto(p, "FindOrCreateEndpoint:276")
    ELSE /\ UNCHANGED loc
         /\ Return(p, nil, ParseMAC(loc[p].hnsEndpoint.MacAddress))

\* Line 268: attachEndpointV1 of the created endpoint.
AttachEndpointV1(p) ==
    /\ pc[p] = "attachEndpointV1:338"
    /\ \E err \in HNSErrors :
          /\ HotAttachEndpoint(req[p].ep.ContainerID, loc[p].hnsEndpoint.Id, err)
          /\ Log(p, "HotAttachEndpoint", req[p].ep.ContainerID,
                 loc[p].hnsEndpoint.Id, err)
          /\ afterAttach(p, err)
    /\ UNCHANGED <<req, prev>>

\* As ListNamespaceEndpoints, but the endpoint is added whatever the list says.
ListNamespaceEndpointsThenAdd(p) ==
    /\ pc[p] = "attachEndpointV2:353"
    /\ \E err \in HNSErrors, nsEndpoints \in SUBSET (1..MaxIds) :
          /\ GetNamespaceEndpointIds(loc[p].namespaceIdentifier, nsEndpoints, err)
          /\ Log(p, "GetNamespaceEndpointIds", loc[p].namespaceIdentifier, 0, err)
          /\ IF err # nil THEN afterAttach(p, err)
             ELSE Goto(p, "attachEndpointV2:366") /\ UNCHANGED loc
    /\ UNCHANGED <<req, prev>>

\* Line 271, attachEndpointV2: the members of the namespace are listed.
ListNamespaceEndpoints(p) ==
    /\ pc[p] = "attachEndpointV2:353"
    /\ \E err \in HNSErrors, nsEndpoints \in SUBSET (1..MaxIds) :
          /\ GetNamespaceEndpointIds(loc[p].namespaceIdentifier, nsEndpoints, err)
          /\ Log(p, "GetNamespaceEndpointIds", loc[p].namespaceIdentifier, 0, err)
          /\ IF err # nil THEN afterAttach(p, err)
             ELSE IF loc[p].hnsEndpoint.Id \in nsEndpoints
             THEN afterAttach(p, nil)
             ELSE Goto(p, "attachEndpointV2:366") /\ UNCHANGED loc
    /\ UNCHANGED <<req, prev>>

\* attachEndpointV2: the endpoint is added to the namespace.
AddEndpointToNamespace(p) ==
    /\ pc[p] = "attachEndpointV2:366"
    /\ \E err \in HNSErrors :
          /\ AddNamespaceEndpoint(loc[p].namespaceIdentifier,
                                  loc[p].hnsEndpoint.Id, err)
          /\ Log(p, "AddNamespaceEndpoint", loc[p].namespaceIdentifier,
                 loc[p].hnsEndpoint.Id, err)
          /\ afterAttach(p, err)
    /\ UNCHANGED <<req, prev>>

\* Line 276: the failed endpoint is deleted and the call returns.
CleanupFailedEndpoint(p) ==
    /\ pc[p] = "FindOrCreateEndpoint:276"
    /\ \E delErr \in HNSErrors :
          /\ DeleteHNSEndpoint(loc[p].hnsEndpoint.Id, delErr)
          /\ Log(p, "HNSEndpointRequest.DELETE", "", loc[p].hnsEndpoint.Id, delErr)
          /\ Return(p, attachFailure(loc[p].err, delErr), <<>>)
    /\ UNCHANGED <<req, loc, prev>>

-----------------------------------------------------------------------------
(* DeleteEndpoint.                                                         *)

\* As detachAborts, but every hot-detach error aborts the delete.
detachAbortsOnAnyError(err) == err # nil

\* Line 314: a hot-detach error aborts the delete, unless the container is
\* already gone.
detachAborts(err) ==
    err # nil /\ err # "ErrComputeSystemDoesNotExist"

\* As keepsEndpoint, but no container keeps the endpoint.
keepsEndpointNever(nsType) == FALSE

\* Line 319: after the hot-detach, the endpoint is deleted for every
\* container but an App container.
keepsEndpoint(nsType) == nsType = appContainerNS

\* As ResolveEndpoint, but an endpoint that is not found counts as deleted.
ResolveEndpointOrSucceed(p) ==
    /\ pc[p] = "DeleteEndpoint:297"
    /\ \E err \in HNSErrors, hnsEndpoint \in hnsEndpoints \cup {NoEndpoint} :
          /\ GetHNSEndpointByName(loc[p].endpointName, hnsEndpoint, err)
          /\ Log(p, "GetHNSEndpointByName", loc[p].endpointName, 0, err)
          /\ loc' = [loc EXCEPT ![p].hnsEndpoint = hnsEndpoint]
          /\ IF err # nil THEN Return(p, nil, <<>>)
             ELSE IF loc[p].nsType = hcnNamespace
             THEN Goto(p, "DeleteEndpoint:308")
             ELSE Goto(p, "DeleteEndpoint:313")
    /\ UNCHANGED <<req, prev>>

\* The lookup by name, and the choice of the detach that follows.
ResolveEndpoint(p) ==
    /\ pc[p] = "DeleteEndpoint:297"
    /\ \E err \in HNSErrors, hnsEndpoint \in hnsEndpoints \cup {NoEndpoint} :
          /\ GetHNSEndpointByName(loc[p].endpointName, hnsEndpoint, err)
          /\ Log(p, "GetHNSEndpointByName", loc[p].endpointName, 0, err)
          /\ loc' = [loc EXCEPT ![p].hnsEndpoint = hnsEndpoint]
          /\ IF err # nil THEN Return(p, err, <<>>)
             ELSE IF loc[p].nsType = hcnNamespace
             THEN Goto(p, "DeleteEndpoint:308")
             ELSE Goto(p, "DeleteEndpoint:313")
    /\ UNCHANGED <<req, prev>>

\* As DetachFromNamespace, but a failure is returned to the caller.
DetachFromNamespaceOrFail(p) ==
    /\ pc[p] = "DeleteEndpoint:308"
    /\ \E err \in HNSErrors :
          /\ RemoveNamespaceEndpoint(loc[p].namespaceIdentifier,
                                     loc[p].hnsEndpoint.Id, err)
          /\ Log(p, "RemoveNamespaceEndpoint", loc[p].namespaceIdentifier,
                 loc[p].hnsEndpoint.Id, err)
          /\ loc' = [loc EXCEPT ![p].err = err]
          /\ IF err # nil THEN Return(p, err, <<>>)
             ELSE Goto(p, "DeleteEndpoint:327")
    /\ UNCHANGED <<req, prev>>

\* Line 308: the endpoint leaves the HCN namespace; a failure is ignored.
DetachFromNamespace(p) ==
    /\ pc[p] = "DeleteEndpoint:308"
    /\ \E err \in HNSErrors :
          /\ RemoveNamespaceEndpoint(loc[p].namespaceIdentifier,
                                     loc[p].hnsEndpoint.Id, err)
          /\ Log(p, "RemoveNamespaceEndpoint", loc[p].namespaceIdentifier,
                 loc[p].hnsEndpoint.Id, err)
          /\ loc' = [loc EXCEPT ![p].err = err]
          /\ Goto(p, "DeleteEndpoint:327")
    /\ UNCHANGED <<req, prev>>

\* Line 313: the endpoint is hot-detached from the calling container.
DetachFromContainer(p) ==
    /\ pc[p] = "DeleteEndpoint:313"
    /\ \E err \in HNSErrors :
          /\ HotDetachEndpoint(req[p].ep.ContainerID, loc[p].hnsEndpoint.Id, err)
          /\ Log(p, "HotDetachEndpoint", req[p].ep.ContainerID,
                 loc[p].hnsEndpoint.Id, err)
          /\ loc' = [loc EXCEPT ![p].err = err]
          /\ IF detachAborts(err) THEN Return(p, err, <<>>)
             ELSE IF keepsEndpoint(loc[p].nsType) THEN Return(p, nil, <<>>)
             ELSE Goto(p, "DeleteEndpoint:327")
    /\ UNCHANGED <<req, prev>>

\* As DeleteEndpoint, but the error of the delete request is only logged.
DeleteEndpointSwallowingError(p) ==
    /\ pc[p] = "DeleteEndpoint:327"
    /\ \E err \in HNSErrors :
          /\ DeleteHNSEndpoint(loc[p].hnsEndpoint.Id, err)
          /\ Log(p, "HNSEndpointRequest.DELETE", "", loc[p].hnsEndpoint.Id, err)
          /\ Return(p, nil, <<>>)
    /\ UNCHANGED <<req, loc, prev>>

\* Line 327: the delete request; its error is what DeleteEndpoint returns.
DeleteEndpoint(p) ==
    /\ pc[p] = "DeleteEndpoint:327"
    /\ \E err \in HNSErrors :
          /\ DeleteHNSEndpoint(loc[p].hnsEndpoint.Id, err)
          /\ Log(p, "HNSEndpointRequest.DELETE", "", loc[p].hnsEndpoint.Id, err)
          /\ Return(p, err, <<>>)
    /\ UNCHANGED <<req, loc, prev>>

-----------------------------------------------------------------------------
(* Specifications.                                                         *)

\* One step of the invocation in slot p.
Step(p) ==
    \/ \E r \in Requests : Invoke(p, r)
    \/ Reinvoke(p)
    \/ CheckHNSVersion(p)
    \/ FindNetwork(p)
    \/ CreateNetwork(p)
    \/ ResolveNetwork(p)
    \/ DeleteNetwork(p)
    \/ FindEndpoint(p)
    \/ AttachFoundEndpoint(p)
    \/ CreateEndpoint(p)
    \/ AttachEndpointV1(p)
    \/ ListNamespaceEndpoints(p)
    \/ AddEndpointToNamespace(p)
    \/ CleanupFailedEndpoint(p)
    \/ ResolveEndpoint(p)
    \/ DetachFromNamespace(p)
    \/ DetachFromContainer(p)
    \/ DeleteEndpoint(p)
    \/ Complete(p)

\* Invocations one after the other, as one orchestrator issues them.
Next == Step(1)

Spec == Init /\ [][Next]_vars

\* One step of the endpoint operation in slot p.
EndpointStep(p) ==
    \/ \E r \in OverlappingRequests : Invoke(p, r)
    \/ FindEndpoint(p)
    \/ AttachEndpointV1(p)
    \/ CreateEndpoint(p)
    \/ ListNamespaceEndpoints(p)
    \/ AddEndpointToNamespace(p)
    \/ CleanupFailedEndpoint(p)
    \/ ResolveEndpoint(p)
    \/ DetachFromNamespace(p)
    \/ DetachFromContainer(p)
    \/ DeleteEndpoint(p)
    \/ Complete(p)

\* Endpoint operations for one pod that overlap in time: each slot runs its
\* own invocation, and the steps of the two interleave HNS call by HNS call.
NextConcurrent == \E p \in Procs : EndpointStep(p)

SpecConcurrent == Init /\ [][NextConcurrent]_vars

\* HNS is shared with the other clients of the host: one of them adds an
\* endpoint to the HCN namespace, which is how attachEndpointV2 can find the
\* endpoint in the namespace already.
OtherClientAddsNamespaceEndpoint ==
    /\ \E e \in hnsEndpoints :
          /\ <<"ns1", e.Id>> \notin nsMembers
          /\ AddNamespaceEndpoint("ns1", e.Id, nil)
    /\ UNCHANGED <<pc, req, loc, calls, ret, prev>>

\* Endpoint operations one after the other on a host whose HNS has other
\* clients.
NextShared ==
    \/ EndpointStep(1)
    \/ OtherClientAddsNamespaceEndpoint

SpecShared == Init /\ [][NextShared]_vars

\* The orchestrator has prepared one FindOrCreateEndpoint call, for any
\* namespace reference and any network configuration, on a host whose HNS
\* is empty.
InitConfigured ==
    /\ hnsNetworks = {}
    /\ hnsEndpoints = {}
    /\ attached = {}
    /\ nsMembers = {}
    /\ nextId = 1
    /\ pc = [p \in Procs |-> "idle"]
    /\ req \in [Procs -> ConfiguredRequests \cup {NoRequest}]
    /\ req[1] \in ConfiguredRequests
    /\ req[2] = NoRequest
    /\ loc = [p \in Procs |-> NoLocals]
    /\ calls = [p \in Procs |-> <<>>]
    /\ ret = [p \in Procs |-> NoReturn]
    /\ prev = [p \in Procs |-> NoInvocation]

\* The prepared call of slot p is made.
Call(p) ==
    /\ pc[p] = "idle"
    /\ req[p] # NoRequest
    /\ Enter(p, req[p])
    /\ UNCHANGED prev

\* One FindOrCreateEndpoint invocation.
NextConfigured ==
    \/ Call(1)
    \/ FindEndpoint(1)
    \/ CreateEndpoint(1)
    \/ AttachEndpointV1(1)
    \/ ListNamespaceEndpoints(1)
    \/ AddEndpointToNamespace(1)
    \/ CleanupFailedEndpoint(1)

SpecConfigured == InitConfigured /\ [][NextConfigured]_vars

-----------------------------------------------------------------------------
(* Vocabulary of the properties.                                           *)

\* The positions in the call log of p that hold a call of api.
CallsOf(p, api) == {i \in 1..Len(calls[p]) : calls[p][i].api = api}

\* The calls that make up the attach step of FindOrCreateEndpoint.
AttachApis ==
    {"HotAttachEndpoint", "GetNamespaceEndpointIds", "AddNamespaceEndpoint"}

\* The invocation in slot p has returned.
Returned(p) == pc[p] = "done"

\* The HNS endpoints that carry the name of the invocation in slot p.
EndpointsNamed(name) == {e \in hnsEndpoints : e.Name = name}

\* FindOrCreateEndpoint in slot p created an endpoint and then failed to
\* attach it.
AttachFailedAfterCreate(p) ==
    /\ req[p].op = "FindOrCreateEndpoint"
    /\ \E i \in CallsOf(p, "HNSEndpointRequest.POST") :
          /\ calls[p][i].err = nil
          /\ \E j \in (i+1)..Len(calls[p]) :
                /\ calls[p][j].api \in AttachApis
                /\ calls[p][j].err # nil

\* The error of the attach step that failed in slot p.
AttachError(p) ==
    LET j == CHOOSE j \in 1..Len(calls[p]) :
                 calls[p][j].api \in AttachApis /\ calls[p][j].err # nil
    IN calls[p][j].err

\* The last HNS call of the invocation in slot p.
LastCall(p) == calls[p][Len(calls[p])]

-----------------------------------------------------------------------------
(* Properties of sequential invocations (Spec).                            *)

\* C1, as claimed: when the attach step fails after a successful create, no
\* endpoint with the deterministic name remains when FindOrCreateEndpoint
\* returns, whatever the HNS calls of the invocation answered.
C1_NoOrphanForEveryOutcome ==
    (Returned(1) /\ AttachFailedAfterCreate(1))
        => EndpointsNamed(loc[1].endpointName) = {}

\* C1, amended: when the attach step fails after a successful create,
\* FindOrCreateEndpoint ends with one delete request for the created
\* endpoint; if that request succeeds no endpoint with the deterministic
\* name remains at the return, and if it fails the created endpoint remains.
C1_CleanupAfterFailedAttach ==
    (Returned(1) /\ AttachFailedAfterCreate(1))
        => /\ LastCall(1).api = "HNSEndpointRequest.DELETE"
           /\ Cardinality(CallsOf(1, "HNSEndpointRequest.DELETE")) = 1
           /\ LastCall(1).id = loc[1].hnsEndpoint.Id
           /\ loc[1].hnsEndpoint.Name = loc[1].endpointName
           /\ LastCall(1).err = nil
                 => EndpointsNamed(loc[1].endpointName) = {}
           /\ LastCall(1).err # nil
                 => EndpointsNamed(loc[1].endpointName) = {loc[1].hnsEndpoint}

\* C1, witness: an attach failed after a create and the cleanup succeeded.
C1_Witness ==
    /\ Returned(1)
    /\ AttachFailedAfterCreate(1)
    /\ LastCall(1).api = "HNSEndpointRequest.DELETE"
    /\ LastCall(1).err = nil

\* C2: when the attach step fails after a successful create, the error that
\* FindOrCreateEndpoint returns is the attach error, whether the cleanup's
\* delete request succeeded or failed.
C2_AttachErrorReturned ==
    (Returned(1) /\ AttachFailedAfterCreate(1))
        => /\ ret[1].err = AttachError(1)
           /\ ret[1].err \in {"ErrHotAttach", "ErrGetNamespaceEndpointIds",
                              "ErrAddNamespaceEndpoint"}

\* C2, witness: an attach failed after a create and the cleanup failed too.
C2_Witness ==
    /\ Returned(1)
    /\ AttachFailedAfterCreate(1)
    /\ LastCall(1).api = "HNSEndpointRequest.DELETE"
    /\ LastCall(1).err = "ErrHNSRequest"

\* The invocation in slot p repeats the one before it: the same operation
\* with the same arguments, issued right after the first returned.
Repeats(p, op) ==
    /\ req[p].op = op
    /\ prev[p].req = req[p]

\* The HNS calls of the invocation in slot p, in order.
Apis(p) == [i \in 1..Len(calls[p]) |-> calls[p][i].api]

\* The number of calls of api among apis.
Count(apis, api) == Cardinality({i \in 1..Len(apis) : apis[i] = api})

\* C3: a FindOrCreateEndpoint for an Infra container or an HCN namespace that
\* repeats a successful one finds the endpoint by name and issues no other
\* HNS call, succeeds, returns the MAC address the first call returned, and
\* leaves exactly one endpoint of that name.
C3_RepeatedEndpointCreate ==
    (/\ Returned(1)
     /\ Repeats(1, "FindOrCreateEndpoint")
     /\ loc[1].nsType \in {infraContainerNS, hcnNamespace}
     /\ prev[1].ret.err = nil)
        => /\ Apis(1) = <<"GetHNSEndpointByName">>
           /\ calls[1][1].err = nil
           /\ calls[1][1].name = loc[1].endpointName
           /\ ret[1].err = nil
           /\ ret[1].MACAddress = prev[1].ret.MACAddress
           /\ ret[1].MACAddress # <<>>
           /\ Cardinality(EndpointsNamed(loc[1].endpointName)) = 1

\* C3, witness: the second call for an HCN namespace returned, after a first
\* call that created the endpoint.
C3_Witness ==
    /\ Returned(1)
    /\ Repeats(1, "FindOrCreateEndpoint")
    /\ loc[1].nsType = hcnNamespace
    /\ prev[1].ret.err = nil
    /\ Count(prev[1].apis, "HNSEndpointRequest.POST") = 1
    /\ ret[1].MACAddress = <<0, 21, 93, 0, 0, 1>>

\* HNS reported a version that checkHNSVersion accepts to the invocation in
\* slot p.
SawSupportedVersion(p) ==
    /\ Len(calls[p]) >= 1
    /\ calls[p][1].api = "GetHNSGlobals"
    /\ calls[p][1].err = nil
    /\ \/ calls[p][1].version.Major > 7
       \/ calls[p][1].version.Major = 7 /\ calls[p][1].version.Minor >= 2

\* C4: a FindOrCreateNetwork that repeats one which created the network (one
\* create request, successful) and that sees a supported HNS version finds
\* the network by name, issues no create request and succeeds; exactly one
\* network of that name exists.
C4_RepeatedNetworkCreate ==
    (/\ Returned(1)
     /\ Repeats(1, "FindOrCreateNetwork")
     /\ prev[1].ret.err = nil
     /\ Count(prev[1].apis, "HNSNetworkRequest.POST") >= 1
     /\ SawSupportedVersion(1))
        => /\ Count(prev[1].apis, "HNSNetworkRequest.POST") = 1
           /\ Apis(1) = <<"GetHNSGlobals", "GetHNSNetworkByName">>
           /\ calls[1][2].err = nil
           /\ ret[1].err = nil
           /\ Cardinality({n \in hnsNetworks :
                  n.Name = generateHNSNetworkName(req[1].nw)}) = 1
           /\ req[1].nw.BridgeNetNSPath = ""

\* C4, witness: the second network create returned, after a first that
\* created the network.
C4_Witness ==
    /\ Returned(1)
    /\ Repeats(1, "FindOrCreateNetwork")
    /\ prev[1].ret.err = nil
    /\ Count(prev[1].apis, "HNSNetworkRequest.POST") = 1
    /\ SawSupportedVersion(1)
    /\ hnsNetworks = {[Id |-> 1, Name |-> "vpcbr02000000000a"]}

\* The endpoint the lookup of the invocation in slot p resolved.
Resolved(p) ==
    /\ Len(calls[p]) >= 1
    /\ calls[p][1].api = "GetHNSEndpointByName"
    /\ calls[p][1].err = nil

\* C6: DeleteEndpoint for an App container issues no delete request; when
\* its hot-detach succeeds or reports the container gone it returns success,
\* and the endpoint named after the referenced Infra container is still in
\* the endpoint collection.
C6_AppDeleteKeepsEndpoint ==
    (/\ Returned(1)
     /\ req[1].op = "DeleteEndpoint"
     /\ HasPrefix(req[1].ep.NetNSName, "container:"))
        => /\ CallsOf(1, "HNSEndpointRequest.DELETE") = {}
           /\ (/\ Resolved(1)
               /\ LastCall(1).api = "HotDetachEndpoint"
               /\ LastCall(1).err \in {nil, "ErrComputeSystemDoesNotExist"})
                 => /\ ret[1].err = nil
                    /\ Len(calls[1]) = 2
                    /\ loc[1].hnsEndpoint \in hnsEndpoints
                    /\ loc[1].hnsEndpoint.Name =
                           "cid-" \o SubSeq(req[1].ep.NetNSName, 11,
                                            Len(req[1].ep.NetNSName))

\* C6, witness: an App delete returned after the hot-detach reported the
\* container gone.
C6_Witness ==
    /\ Returned(1)
    /\ req[1].op = "DeleteEndpoint"
    /\ req[1].ep.NetNSName = "container:c1"
    /\ Resolved(1)
    /\ LastCall(1).api = "HotDetachEndpoint"
    /\ LastCall(1).err = "ErrComputeSystemDoesNotExist"
    /\ ret[1].err = nil

\* The detach step of the DeleteEndpoint in slot p did not abort it.
DetachDidNotAbort(p) ==
    /\ Len(calls[p]) >= 2
    /\ \/ calls[p][2].api = "RemoveNamespaceEndpoint"
       \/ /\ calls[p][2].api = "HotDetachEndpoint"
          /\ calls[p][2].err \in {nil, "ErrComputeSystemDoesNotExist"}

\* C7: DeleteEndpoint for an Infra container or an HCN namespace whose
\* endpoint is found and whose detach does not abort issues one delete
\* request for the resolved endpoint and returns that request's error; when
\* it returns success the endpoint is no longer in the endpoint collection.
C7_DeleteReturnsDeleteOutcome ==
    (/\ Returned(1)
     /\ req[1].op = "DeleteEndpoint"
     /\ loc[1].nsType \in {infraContainerNS, hcnNamespace}
     /\ Resolved(1)
     /\ DetachDidNotAbort(1))
        => /\ Len(calls[1]) = 3
           /\ LastCall(1).api = "HNSEndpointRequest.DELETE"
           /\ LastCall(1).id = loc[1].hnsEndpoint.Id
           /\ ret[1].err = LastCall(1).err
           /\ ret[1].err = nil
                 => /\ ~\E e \in hnsEndpoints : e.Id = loc[1].hnsEndpoint.Id
                    /\ EndpointsNamed(loc[1].endpointName) = {}

\* C7, witness: an Infra delete returned the error of its delete request.
C7_Witness ==
    /\ Returned(1)
    /\ req[1].op = "DeleteEndpoint"
    /\ loc[1].nsType = infraContainerNS
    /\ Resolved(1)
    /\ DetachDidNotAbort(1)
    /\ ret[1].err = "ErrHNSRequest"

\* C8: the lookup of a FindOrCreateEndpoint for an App container that finds
\* no endpoint of the referenced name is the last step of the invocation: it
\* returns the not-found error with the lookup as its only HNS call, and
\* HNS is as it was.
C8_AppWithoutEndpointFails ==
    [][\A p \in Procs :
          (/\ pc[p] = "FindOrCreateEndpoint:153"
           /\ pc'[p] # pc[p]
           /\ HasPrefix(req[p].ep.NetNSName, "container:")
           /\ EndpointsNamed(loc[p].endpointName) = {})
             => /\ pc'[p] = "done"
                /\ ret'[p].err = "ErrFindEndpoint"
                /\ Apis(p)' = <<"GetHNSEndpointByName">>
                /\ hns' = hns]_vars

\* C8, witness: an App create returned not-found.
C8_Witness ==
    /\ Returned(1)
    /\ req[1].op = "FindOrCreateEndpoint"
    /\ req[1].ep.NetNSName = "container:c1"
    /\ ret[1].err = "ErrFindEndpoint"
    /\ EndpointsNamed("cid-c1") = {}

\* C9: FindOrCreateEndpoint for an App container whose referenced endpoint
\* exists issues, after the lookup, one hot-attach of that endpoint to the
\* calling container and no other HNS call, returns the hot-attach's error
\* and reports the endpoint's stored MAC address.
C9_AppAttachesExistingEndpoint ==
    (/\ Returned(1)
     /\ req[1].op = "FindOrCreateEndpoint"
     /\ HasPrefix(req[1].ep.NetNSName, "container:")
     /\ Resolved(1))
        => /\ Apis(1) = <<"GetHNSEndpointByName", "HotAttachEndpoint">>
           /\ calls[1][2].name = req[1].ep.ContainerID
           /\ calls[1][2].id = loc[1].hnsEndpoint.Id
           /\ loc[1].hnsEndpoint \in hnsEndpoints
           /\ loc[1].hnsEndpoint.Name = calls[1][1].name
           /\ ret[1].err = calls[1][2].err
           /\ ret[1].MACAddress = ParseMAC(loc[1].hnsEndpoint.MacAddress)
           /\ ret[1].MACAddress # <<>>
           /\ ret[1].err = nil
                 => <<req[1].ep.ContainerID, loc[1].hnsEndpoint.Id>> \in attached

\* C9, witness: App container c2 was attached to the endpoint of Infra
\* container c1.
C9_Witness ==
    /\ Returned(1)
    /\ req[1].op = "FindOrCreateEndpoint"
    /\ req[1].ep.ContainerID = "c2"
    /\ req[1].ep.NetNSName = "container:c1"
    /\ Resolved(1)
    /\ ret[1].err = nil
    /\ \E e \in EndpointsNamed("cid-c1") : <<"c2", e.Id>> \in attached

\* An address list of two or more addresses, or of one IPv6 address.
TwoAddressesOrIPv6(addresses) ==
    \/ Len(addresses) >= 2
    \/ addresses = <<[len |-> 16, v4mapped |-> FALSE]>>

\* C10: a FindOrCreateEndpoint whose endpoint carries two or more addresses,
\* or a single IPv6 address, has returned the validation error as soon as it
\* is entered: it is never at an HNS call and has issued none.
C10_AddressValidation ==
    \A p \in Procs :
        (/\ req[p].op = "FindOrCreateEndpoint"
         /\ TwoAddressesOrIPv6(req[p].ep.IPAddresses))
           => /\ pc[p] = "done"
              /\ ret[p].err = "ErrSingleIPv4Only"
              /\ calls[p] = <<>>

\* C10, witness: an endpoint with two IPv4 addresses was rejected while HNS
\* holds an endpoint.
C10_Witness ==
    /\ Returned(1)
    /\ req[1].op = "FindOrCreateEndpoint"
    /\ req[1].ep.IPAddresses = <<IPv4, IPv4>>
    /\ ret[1].err = "ErrSingleIPv4Only"
    /\ hnsEndpoints # {}

\* An address list that is one IPv4 address, in 4-byte or in IPv4-mapped
\* 16-byte form.
ExactlyOneIPv4(addresses) ==
    \/ addresses = <<[len |-> 4, v4mapped |-> FALSE]>>
    \/ addresses = <<[len |-> 16, v4mapped |-> TRUE]>>

\* C11: a FindOrCreateEndpoint whose endpoint does not carry exactly one
\* IPv4 address, the empty address list included, returns the validation
\* error to its caller.
C11_ExactlyOneIPv4Enforced ==
    \A p \in Procs :
        (/\ req[p].op = "FindOrCreateEndpoint"
         /\ ~ExactlyOneIPv4(req[p].ep.IPAddresses))
           => /\ pc[p] = "done"
              /\ ret[p].err = "ErrSingleIPv4Only"

\* Version v is at least 7.2 in the lexicographic order of (major, minor).
AtLeastMinimum(v) == v.Major * 1000 + v.Minor >= 7002

\* C12: once GetHNSGlobals has reported a version to FindOrCreateNetwork,
\* a version below the minimum (major, minor) in lexicographic order ends
\* the call with the version error and no network lookup or create, and a
\* version equal to or above it never gives the version error.
C12_VersionGate ==
    \A p \in Procs :
        (/\ req[p].op = "FindOrCreateNetwork"
         /\ Len(calls[p]) >= 1
         /\ calls[p][1].err = nil)
           => /\ calls[p][1].api = "GetHNSGlobals"
              /\ ~AtLeastMinimum(calls[p][1].version)
                    => /\ pc[p] = "done"
                       /\ ret[p].err = "ErrHNSVersion"
                       /\ Apis(p) = <<"GetHNSGlobals">>
              /\ AtLeastMinimum(calls[p][1].version)
                    => /\ ret[p].err # "ErrHNSVersion"
                       /\ req[p].nw.BridgeNetNSPath = ""
                             => \/ pc[p] # "done"
                                \/ Len(calls[p]) >= 2

\* C12, witness: the network was created under version 8.0, whose minor is
\* below the minimum's.
C12_Witness ==
    /\ Returned(1)
    /\ req[1].op = "FindOrCreateNetwork"
    /\ calls[1][1].version = [Major |-> 8, Minor |-> 0]
    /\ ret[1].err = nil
    /\ Count(Apis(1), "HNSNetworkRequest.POST") = 1

\* C13: when the namespace-remove of a DeleteEndpoint for an HCN namespace
\* fails, the delete request for the resolved endpoint is still issued and
\* DeleteEndpoint returns the error of that request alone.
C13_NamespaceDetachFailureIgnored ==
    (/\ Returned(1)
     /\ req[1].op = "DeleteEndpoint"
     /\ Len(calls[1]) >= 2
     /\ calls[1][2].api = "RemoveNamespaceEndpoint"
     /\ calls[1][2].err # nil)
        => /\ Len(calls[1]) = 3
           /\ calls[1][2].name = req[1].ep.NetNSName
           /\ calls[1][3].api = "HNSEndpointRequest.DELETE"
           /\ calls[1][3].id = calls[1][2].id
           /\ ret[1].err = calls[1][3].err

\* C13, witness: the namespace-remove failed, the delete succeeded and so
\* did DeleteEndpoint.
C13_Witness ==
    /\ Returned(1)
    /\ req[1].op = "DeleteEndpoint"
    /\ Len(calls[1]) = 3
    /\ calls[1][2].api = "RemoveNamespaceEndpoint"
    /\ calls[1][2].err = "ErrRemoveNamespaceEndpoint"
    /\ ret[1].err = nil
    /\ EndpointsNamed("cid-ns1") = {}

\* C14: in a DeleteEndpoint for an Infra or App container, a hot-detach
\* error other than "container gone" is returned with no delete request
\* issued and the endpoint still there; after "container gone", as after a
\* successful hot-detach, an Infra delete goes on to the delete request and
\* an App delete returns success.
C14_HotDetachFailure ==
    (/\ Returned(1)
     /\ req[1].op = "DeleteEndpoint"
     /\ Len(calls[1]) >= 2
     /\ calls[1][2].api = "HotDetachEndpoint")
        => /\ req[1].ep.NetNSName \in {"", "none"}
              \/ HasPrefix(req[1].ep.NetNSName, "container:")
           /\ calls[1][2].name = req[1].ep.ContainerID
           /\ calls[1][2].err \notin {nil, "ErrComputeSystemDoesNotExist"}
                 => /\ ret[1].err = calls[1][2].err
                    /\ Len(calls[1]) = 2
                    /\ \E e \in hnsEndpoints : e.Id = calls[1][2].id
           /\ (/\ calls[1][2].err \in {nil, "ErrComputeSystemDoesNotExist"}
               /\ req[1].ep.NetNSName \in {"", "none"})
                 => /\ Len(calls[1]) = 3
                    /\ calls[1][3].api = "HNSEndpointRequest.DELETE"
                    /\ calls[1][3].id = calls[1][2].id
           /\ (/\ calls[1][2].err \in {nil, "ErrComputeSystemDoesNotExist"}
               /\ HasPrefix(req[1].ep.NetNSName, "container:"))
                 => /\ Len(calls[1]) = 2
                    /\ ret[1].err = nil

\* C14, witness: the hot-detach of an Infra delete reported the container
\* gone and the endpoint was deleted.
C14_Witness ==
    /\ Returned(1)
    /\ req[1].op = "DeleteEndpoint"
    /\ req[1].ep.NetNSName = "none"
    /\ Len(calls[1]) = 3
    /\ calls[1][2].api = "HotDetachEndpoint"
    /\ calls[1][2].err = "ErrComputeSystemDoesNotExist"
    /\ ret[1].err = nil
    /\ hnsEndpoints = {}

\* C15: a DeleteEndpoint or DeleteNetwork whose lookup by name finds nothing
\* returns the lookup's error with the lookup as its only HNS call; so a
\* DeleteEndpoint (Infra container or HCN namespace) or a DeleteNetwork that
\* repeats a successful one returns an error.
C15_DeleteOfUnresolvedFails ==
    (/\ Returned(1)
     /\ req[1].op \in {"DeleteEndpoint", "DeleteNetwork"})
        => /\ calls[1][1].api = IF req[1].op = "DeleteEndpoint"
                                THEN "GetHNSEndpointByName"
                                ELSE "GetHNSNetworkByName"
           /\ calls[1][1].err # nil
                 => /\ Len(calls[1]) = 1
                    /\ ret[1].err = calls[1][1].err
           /\ (/\ prev[1].req = req[1]
               /\ prev[1].ret.err = nil
               /\ ~HasPrefix(req[1].ep.NetNSName, "container:"))
                 => /\ Len(calls[1]) = 1
                    /\ ret[1].err \in {"ErrEndpointNotFound", "ErrNetworkNotFound"}

\* C15, witness: a DeleteEndpoint for an Infra container was repeated after
\* it had succeeded.
C15_Witness ==
    /\ Returned(1)
    /\ req[1].op = "DeleteEndpoint"
    /\ req[1].ep.NetNSName = ""
    /\ prev[1].req = req[1]
    /\ prev[1].ret.err = nil
    /\ ret[1].err = "ErrEndpointNotFound"

\* Slot p runs or has run FindOrCreateNetwork for a bridge outside the host
\* namespace.
NonHostBridge(p) ==
    /\ pc[p] # "idle"
    /\ req[p].op = "FindOrCreateNetwork"
    /\ req[p].nw.BridgeNetNSPath # ""

\* C18 (as stated): a FindOrCreateNetwork for a bridge outside the host
\* namespace has issued no HNS call at any time, and returns the validation
\* error.
C18_RejectedBeforeAnyCall ==
    NonHostBridge(1) =>
        /\ calls[1] = <<>>
        /\ Returned(1) => ret[1].err = "ErrBridgeNetNS"

\* C18 (amended): a FindOrCreateNetwork for a bridge outside the host
\* namespace issues GetHNSGlobals and no other HNS call, never reaches the
\* network lookup or create, and returns an error: the error of
\* GetHNSGlobals when that call fails, the version error when the version is
\* below the minimum, and the validation error otherwise.
C18_RejectedAfterVersionCheck ==
    NonHostBridge(1) =>
        /\ pc[1] \in {"checkHNSVersion:429", "done"}
        /\ pc[1] = "checkHNSVersion:429" => calls[1] = <<>>
        /\ Returned(1) =>
              /\ Apis(1) = <<"GetHNSGlobals">>
              /\ ret[1].err =
                    (IF calls[1][1].err # nil THEN calls[1][1].err
                     ELSE IF ~AtLeastMinimum(calls[1][1].version) THEN "ErrHNSVersion"
                     ELSE "ErrBridgeNetNS")

\* C18, witness: under version 7.2 the bridge in namespace netns1 was
\* rejected with the validation error after GetHNSGlobals alone.
C18_Witness ==
    /\ NonHostBridge(1)
    /\ Returned(1)
    /\ req[1].nw.BridgeNetNSPath = "netns1"
    /\ calls[1][1].version = [Major |-> 7, Minor |-> 2]
    /\ Apis(1) = <<"GetHNSGlobals">>
    /\ ret[1].err = "ErrBridgeNetNS"

\* C20: whenever FindOrCreateEndpoint has returned success for an Infra
\* container or an HCN namespace, an endpoint with the deterministic name
\* exists and is attached to that container (Infra) or is a member of that
\* namespace (HCN namespace).
C20_SuccessMeansAttached ==
    (/\ Returned(1)
     /\ req[1].op = "FindOrCreateEndpoint"
     /\ loc[1].nsType \in {infraContainerNS, hcnNamespace}
     /\ ret[1].err = nil)
        => \E e \in EndpointsNamed(loc[1].endpointName) :
              /\ loc[1].nsType = infraContainerNS
                    => <<req[1].ep.ContainerID, e.Id>> \in attached
              /\ loc[1].nsType = hcnNamespace
                    => <<req[1].ep.NetNSName, e.Id>> \in nsMembers

-----------------------------------------------------------------------------
(* Properties of the functions of the arguments (SpecConfigured).          *)

\* The invocation in slot p has computed its locals from ep.
Classified(p) == pc[p] # "idle"

\* The classification of a namespace reference, case by case.
ExpectedNamespace(ep) ==
    IF ep.NetNSName \in {"", "none"}
    THEN <<0, ep.ContainerID>>
    ELSE IF Len(ep.NetNSName) >= 10 /\ SubSeq(ep.NetNSName, 1, 10) = "container:"
    THEN <<1, SubSeq(ep.NetNSName, 11, Len(ep.NetNSName))>>
    ELSE <<2, ep.NetNSName>>

\* The endpoint name resolved for the Infra container whose id is X.
InfraEndpointName(X) ==
    endpointLocals([ContainerID |-> X, NetNSName |-> "",
                    IPAddresses |-> <<IPv4>>]).endpointName

\* The namespace type and identifier are the ones the three cases give.
ClassifiedByCases(p) ==
    <<loc[p].nsType, loc[p].namespaceIdentifier>> = ExpectedNamespace(req[p].ep)

\* C16 (as stated): the classification follows the three cases, and the
\* endpoint name of an App container referencing "container:X" is the
\* endpoint name of the Infra container whose id is X, for every X.
C16_AppSharesInfraEndpointName ==
    Classified(1) =>
        /\ ClassifiedByCases(1)
        /\ loc[1].nsType = appContainerNS
              => loc[1].endpointName = InfraEndpointName(loc[1].namespaceIdentifier)

\* C16 (amended): the classification follows the three cases; the endpoint
\* name of an App container referencing "container:X" is the endpoint name of
\* the Infra container whose id is X when X is not empty, and the name of
\* the App container's own id when X is empty.
C16_AppSharesNamedInfraEndpoint ==
    Classified(1) =>
        /\ ClassifiedByCases(1)
        /\ (loc[1].nsType = appContainerNS /\ loc[1].namespaceIdentifier # "")
              => loc[1].endpointName = InfraEndpointName(loc[1].namespaceIdentifier)
        /\ (loc[1].nsType = appContainerNS /\ loc[1].namespaceIdentifier = "")
              => loc[1].endpointName = InfraEndpointName(req[1].ep.ContainerID)

\* Container c2 references "container:c1" and resolves the endpoint name of
\* the Infra container c1.
C16_Witness ==
    /\ Classified(1)
    /\ req[1].ep.ContainerID = "c2"
    /\ req[1].ep.NetNSName = "container:c1"
    /\ loc[1].nsType = appContainerNS
    /\ loc[1].namespaceIdentifier = "c1"
    /\ loc[1].endpointName = InfraEndpointName("c1")
    /\ loc[1].endpointName # InfraEndpointName("c2")

\* The text of the CIDRs a network can be configured with.
CIDRText(cidr) ==
    CASE cidr = [IP |-> <<10, 0, 0, 0>>, Ones |-> 16] -> "10.0.0.0/16"
      [] cidr = [IP |-> <<10, 1, 0, 0>>, Ones |-> 16] -> "10.1.0.0/16"

\* The text of the subnet of each ENI address.
SubnetText(address) ==
    CASE address = [IP |-> <<10, 0, 0, 5>>, Ones |-> 24] -> "10.0.0.0/24"
      [] address = [IP |-> <<192, 168, 77, 130>>, Ones |-> 26] -> "192.168.77.128/26"

\* The exception list the configuration nw asks for.
ExpectedExceptions(nw) ==
    (IF nw.VPCCIDRs.isNil
     THEN <<SubnetText(nw.ENIIPAddress)>>
     ELSE [i \in 1..Len(nw.VPCCIDRs.elems) |-> CIDRText(nw.VPCCIDRs.elems[i])])
    \o (IF nw.ServiceCIDR = "" THEN <<>> ELSE <<nw.ServiceCIDR>>)

\* C17: every endpoint the invocation has created carries, as its first
\* policy, an OutboundNAT policy whose exceptions are the subnet of the
\* interface alone when no VPC CIDR list is configured and otherwise the
\* configured VPC CIDRs in their order, followed by the service CIDR when
\* one is configured.
C17_OutboundNATExceptions ==
    \A e \in hnsEndpoints :
        /\ Len(e.Policies) >= 1
        /\ e.Policies[1].Type = "OutBoundNAT"
        /\ e.Policies[1].Exceptions = ExpectedExceptions(req[1].nw)
        /\ \A i \in 2..Len(e.Policies) : e.Policies[i].Type # "OutBoundNAT"

\* An endpoint was created for the VPC CIDRs 10.0.0.0/16 and 10.1.0.0/16
\* and the service CIDR 172.20.0.0/16, and excepts the three in that order.
C17_Witness ==
    /\ req[1].nw.VPCCIDRs.elems =
           <<[IP |-> <<10, 0, 0, 0>>, Ones |-> 16], [IP |-> <<10, 1, 0, 0>>, Ones |-> 16]>>
    /\ req[1].nw.ServiceCIDR = "172.20.0.0/16"
    /\ \E e \in hnsEndpoints :
           e.Policies[1].Exceptions = <<"10.0.0.0/16", "10.1.0.0/16", "172.20.0.0/16">>

-----------------------------------------------------------------------------
(* Properties on a host whose HNS has other clients (SpecShared).          *)

\* Slot 1 runs FindOrCreateEndpoint and its last HNS call so far is api.
AfterCall(api) ==
    /\ req[1].op = "FindOrCreateEndpoint"
    /\ Len(calls[1]) >= 1
    /\ LastCall(1).api = api

\* This step of slot 1 issues one more HNS call of the same invocation.
IssuesCall ==
    /\ Len(calls'[1]) = Len(calls[1]) + 1
    /\ SubSeq(calls'[1], 1, Len(calls[1])) = calls[1]

\* This step of slot 1 issues no HNS call and changes nothing in HNS.
IssuesNoCall == calls'[1] = calls[1] /\ UNCHANGED hns

\* The created endpoint is a member of the namespace of the invocation.
CreatedIsMember ==
    <<loc[1].namespaceIdentifier, loc[1].hnsEndpoint.Id>> \in nsMembers

\* What follows the create request of FindOrCreateEndpoint, step by step.
AttachStep ==
    /\ (AfterCall("HNSEndpointRequest.POST") /\ LastCall(1).err # nil)
          => /\ Returned(1)
             /\ ret[1].err = LastCall(1).err
             /\ calls'[1] # calls[1] => Len(calls'[1]) <= 1
    /\ (AfterCall("HNSEndpointRequest.POST") /\ LastCall(1).err = nil)
          => /\ ~Returned(1)
             /\ loc[1].hnsEndpoint \in hnsEndpoints
             /\ pc'[1] # pc[1] =>
                   /\ IssuesCall
                   /\ loc[1].nsType = infraContainerNS
                         => /\ LastCall(1)'.api = "HotAttachEndpoint"
                            /\ LastCall(1)'.name = req[1].ep.ContainerID
                            /\ LastCall(1)'.id = loc[1].hnsEndpoint.Id
                   /\ loc[1].nsType = hcnNamespace
                         => /\ LastCall(1)'.api = "GetNamespaceEndpointIds"
                            /\ LastCall(1)'.name = req[1].ep.NetNSName
                            /\ (LastCall(1)'.err = nil /\ CreatedIsMember)
                                  => /\ Returned(1)'
                                     /\ ret'[1].err = nil
                                     /\ UNCHANGED hns
                            /\ (LastCall(1)'.err = nil /\ ~CreatedIsMember)
                                  => ~Returned(1)'
                            /\ LastCall(1)'.err # nil
                                  => /\ ~Returned(1)'
                                     /\ loc'[1].err = LastCall(1)'.err
    /\ (AfterCall("GetNamespaceEndpointIds") /\ ~Returned(1) /\ pc'[1] # pc[1])
          => /\ IssuesCall
             /\ LastCall(1).err = nil
                   => /\ LastCall(1)'.api = "AddNamespaceEndpoint"
                      /\ LastCall(1)'.name = req[1].ep.NetNSName
                      /\ LastCall(1)'.id = loc[1].hnsEndpoint.Id
             /\ LastCall(1).err # nil
                   => /\ LastCall(1)'.api = "HNSEndpointRequest.DELETE"
                      /\ LastCall(1)'.id = loc[1].hnsEndpoint.Id
                      /\ Returned(1)'
                      /\ ret'[1].err = LastCall(1).err
    /\ (IssuesCall /\ req[1].op = "FindOrCreateEndpoint"
           /\ loc[1].nsType # appContainerNS
           /\ LastCall(1)'.api \in {"HotAttachEndpoint", "GetNamespaceEndpointIds",
                                    "AddNamespaceEndpoint"})
          => \E i \in 1..Len(calls[1]) :
                /\ calls[1][i].api = "HNSEndpointRequest.POST"
                /\ calls[1][i].err = nil

\* C19: after a create request that failed FindOrCreateEndpoint returns with
\* no further call; after one that succeeded the next call is the hot-attach
\* of the created endpoint to the container id (Infra) or the listing of the
\* namespace's members (HCN namespace); a listing that shows the endpoint
\* returns success with no add, one that does not is followed by the add of
\* the endpoint, and one that fails is followed by the cleanup and returns
\* the listing's error; no attach call precedes a successful create.
C19_AttachFollowsNamespaceType == [][AttachStep]_vars

\* C19, witness: the endpoint created for namespace ns1 was in the namespace
\* when its members were listed, and the call returned success with no add.
C19_Witness ==
    /\ Returned(1)
    /\ req[1].ep.NetNSName = "ns1"
    /\ Apis(1) = <<"GetHNSEndpointByName", "HNSEndpointRequest.POST",
                   "GetNamespaceEndpointIds">>
    /\ ret[1].err = nil
    /\ CreatedIsMember

-----------------------------------------------------------------------------
(* Properties of overlapping invocations (SpecConcurrent).                 *)

\* C5: once two overlapping FindOrCreateEndpoint invocations for the same
\* Infra container or HCN namespace have both returned, at most one endpoint
\* with the deterministic name exists.
C5_ConcurrentCreatesConverge ==
    (/\ Returned(1) /\ Returned(2)
     /\ req[1].op = "FindOrCreateEndpoint"
     /\ req[2] = req[1])
        => Cardinality(EndpointsNamed(loc[1].endpointName)) <= 1

====
